---- MODULE Spec2Model ----
(***************************************************************************)
(* The data-fetching layer of the football SPA: the query hooks            *)
(* (hooks/useMatches, hooks/useCompetitions, hooks/useCompetitionDetail,   *)
(* hooks/useTeamDetail), the page orchestrators (Home, CompetitionDetail,  *)
(* TeamDetail, MatchDetail) and the query client they are mounted under.   *)
(*                                                                         *)
(* Every hook is one useQuery call of @tanstack/react-query 5.90; the      *)
(* options each hook passes (queryKey, enabled, retry, staleTime,          *)
(* refetchInterval) are taken from the hook's source, and the cache entry  *)
(* of a key carries the fields useQuery reports (status, fetchStatus,      *)
(* data, error, fetchFailureCount, isInvalidated).                         *)
(*                                                                         *)
(* JavaScript values are written as strings: "NaN", "0", "null", "86".     *)
(***************************************************************************)
EXTENDS Integers, FiniteSets, Sequences, TLC

VARIABLES
    page,       \* the route pattern the browser is on (fixed per specification)
    route,      \* the route parameter of the mounted page, or Away
    cache,      \* query cache: key -> query state and the key's requests on the network
    observer,   \* key -> the mounted observer's options (enabled) and poll timer
    faults,     \* failed HTTP responses produced so far
    events,     \* user and clock events so far (navigation, click, focus, time)
    last,       \* the operation that took the latest step
    focused,    \* whether the window is visible (focusManager.isFocused())
    call        \* the latest call of a function of the API layer or of a component's
                \* helper: its name, argument and result (None before any call)

vars == <<page, route, cache, observer, faults, events, last, focused, call>>

None == "none"
Away == "away"

\* ---------------------------------------------------------------- bounds
MaxFaults == 3
MaxEvents == 4
MaxOrphans == 1

\* ------------------------------------------------------- program constants
\* hooks/useMatches
MATCHES_CACHE_TIME == 5 * 60 * 1000
MATCHES_STALE_TIME == 2 * 60 * 1000
\* hooks/useCompetitions, hooks/useCompetitionDetail, hooks/useTeamDetail
DETAIL_CACHE_TIME == 10 * 60 * 1000
DETAIL_STALE_TIME == 5 * 60 * 1000

\* ------------------------------------------------------------ JS values
\* !!v for the values a route parameter converts to
Falsy == {"NaN", "0", "null", "", "undefined"}
Truthy(v) == v \notin Falsy

\* parseInt(id, 10) on the route strings of the model
ParseInt(s) == IF s \in {"86", "0"} THEN s ELSE "NaN"

\* Number(id) on the route strings of the model
Number(s) == IF s \in {"1", "2", "0"} THEN s ELSE "NaN"

\* ------------------------------------------------------------ hooks
CompetitionChildren == {"useStandings", "useScorers", "useTeams", "useCompetitionMatches"}
Hooks ==
    {"useTodayMatches", "useLiveMatches", "useMatchById", "useHead2Head",
     "useFullCompetition", "useTeam", "useTeamMatches"} \cup CompetitionChildren

\* a cache key: <<hook, id or code, options>>
Hook(k) == k[1]
Arg(k) == k[2]
Opt(k) == k[3]

\* retry: of each useQuery call; the hooks that give none inherit the client's
QueryClientRetry == 2
Retry(h) ==
    CASE h = "useHead2Head" -> 1
      [] h \in {"useTodayMatches", "useLiveMatches", "useMatchById"} -> 2
      [] OTHER -> QueryClientRetry

\* the hooks of useMatches.ts that pass staleTime: STALE_TIME
MatchesStaleTimeHooks == {"useMatches", "useTodayMatches", "useMatchById", "useScheduledMatches"}

\* variant: the live matches have the staleness window of the other match lists
StaleTimeOfMatchLists(h) ==
    CASE h = "useHead2Head" -> MATCHES_CACHE_TIME
      [] h \in MatchesStaleTimeHooks \cup {"useLiveMatches"} -> MATCHES_STALE_TIME
      [] OTHER -> DETAIL_STALE_TIME

StaleTime(h) ==
    CASE h = "useLiveMatches" -> 30000
      [] h = "useHead2Head" -> MATCHES_CACHE_TIME
      [] h \in MatchesStaleTimeHooks -> MATCHES_STALE_TIME
      [] OTHER -> DETAIL_STALE_TIME

\* refetchInterval: 0 stands for a hook that sets none
RefetchInterval(h) ==
    CASE h = "useTodayMatches" -> 60000
      [] h = "useLiveMatches" -> 30000
      [] OTHER -> 0

\* the hooks whose queryFn starts with "if (!matchId) throw"
IdGuard(h) == h \in {"useMatchById", "useHead2Head"}

\* ------------------------------------------------------------ pages
Pages == {"home", "competition", "team", "match"}

\* the route strings of the model, per page
Routes(p) ==
    CASE p = "home" -> {"/"}
      [] p = "competition" -> {"PL"}
      [] p = "team" -> {"86", "abc"}
      [] p = "match" -> {"1", "2", "abc", "0"}

\* the key of the page's parent query
ParentKey(p, r) ==
    CASE p = "home" -> <<"useTodayMatches", "goals", "">>
      [] p = "competition" -> <<"useFullCompetition", r, "">>
      [] p = "team" -> <<"useTeam", ParseInt(r), "">>
      [] p = "match" -> <<"useMatchById", Number(r), "">>

\* the keys of the other queries of the page
ChildKeys(p, r) ==
    CASE p = "home" -> {}
      [] p = "competition" -> {<<h, r, "">> : h \in CompetitionChildren}
      [] p = "team" -> {<<"useTeamMatches", ParseInt(r), o>> : o \in {"FINISHED", "SCHEDULED"}}
      [] p = "match" -> {<<"useHead2Head", Number(r), "">>}

PageKeys(p, r) == IF r = Away THEN {} ELSE {ParentKey(p, r)} \cup ChildKeys(p, r)

Keys == UNION {PageKeys(p, r) : <<p, r>> \in {<<p, r>> \in Pages \X {"/", "PL", "86", "abc", "1", "2", "0"} : r \in Routes(p)}}

Observed == PageKeys(page, route)

\* variant: the hooks leave the id unchecked
HookEnabledAlways(k) == TRUE

\* the hook's own condition on its id or code
HookEnabled(k) ==
    IF Hook(k) \in {"useTodayMatches", "useLiveMatches"} THEN TRUE ELSE Truthy(Arg(k))

\* variant: the match page passes !!match to the head-to-head hook
PageEnabledGatingMatch(p, r, k, c) ==
    IF k \in ChildKeys(p, r)
    THEN Truthy(Arg(k)) /\ c[ParentKey(p, r)].data # None
    ELSE TRUE

\* the third argument the page passes: !!code && !!competition, !!teamId && !!team
PageEnabled(p, r, k, c) ==
    IF p \in {"competition", "team"} /\ k \in ChildKeys(p, r)
    THEN Truthy(Arg(k)) /\ c[ParentKey(p, r)].data # None
    ELSE TRUE

Enabled(p, r, k, c) == HookEnabled(k) /\ PageEnabled(p, r, k, c)

\* ------------------------------------------------------------ query state
InitQuery ==
    [status |-> "pending", fetchStatus |-> "idle", data |-> None, error |-> None,
     failureCount |-> 0, failureReason |-> None, isInvalidated |-> FALSE,
     age |-> 0, net |-> "none", attempts |-> 0, retryCancelled |-> FALSE,
     orphans |-> 0]

\* The clock of the model advances in ticks: the poll interval on the page that
\* polls, the shortest staleness window of the page's hooks on the others.
Tick(p) ==
    CASE p = "home" -> RefetchInterval("useTodayMatches")
      [] p = "match" -> StaleTime("useMatchById")
      [] OTHER -> DETAIL_STALE_TIME

\* the query has been fetched at some point
EverFetched(s) == s.status # "pending" \/ s.fetchStatus = "fetching"

\* isStale: no data, invalidated, or older than the hook's staleTime
IsStale(s, k) ==
    s.data = None \/ s.isInvalidated \/ s.age * Tick(page) >= StaleTime(Hook(k))

IsLoading(s) == s.fetchStatus = "fetching" /\ s.status = "pending"

\* the queryFn of the hook: the guarded ones throw before any request
QueryFn(k) == IF IdGuard(Hook(k)) /\ ~Truthy(Arg(k)) THEN "threw" ELSE "sent"

\* a new fetch of the key; a request of the fetch it replaces stays on the
\* network (the queryFn passes no abort signal) and is counted as an orphan
FetchState(s, k) ==
    [s EXCEPT !.fetchStatus = "fetching", !.failureCount = 0, !.failureReason = None,
              !.status = IF s.data = None THEN "pending" ELSE s.status,
              !.error = IF s.data = None THEN None ELSE s.error,
              !.net = QueryFn(k), !.attempts = IF QueryFn(k) = "sent" THEN 1 ELSE 0,
              !.retryCancelled = FALSE,
              !.orphans = IF s.net = "sent" THEN @ + 1 ELSE @]

\* whether fetching the key replaces the running fetch (refetch with cancelRefetch)
Cancels(s, cancelRefetch) == s.fetchStatus = "fetching" /\ s.data # None /\ cancelRefetch

\* variant: every fetch call starts a fetch of its own
QueryFetchAlwaysStarts(s, k, cancelRefetch) == FetchState(s, k)

\* query.fetch: a fetch in flight is joined, unless cancelRefetch replaces it
QueryFetch(s, k, cancelRefetch) ==
    IF s.fetchStatus = "fetching" /\ ~Cancels(s, cancelRefetch)
    THEN [s EXCEPT !.retryCancelled = FALSE]
    ELSE FetchState(s, k)

\* variant: an observer fetches on mount whatever the age of the cached data
ShouldFetchOnMountAlways(p, r, k, c) == Enabled(p, r, k, c)

\* refetchOnMount (default): an enabled observer fetches on mount if the query is stale
ShouldFetchOnMount(p, r, k, c) == Enabled(p, r, k, c) /\ IsStale(c[k], k)

\* no call of a function of the API layer was made
NoCall == [fn |-> None, done |-> FALSE]

\* the application as it starts: nothing mounted, nothing cached
InitApp ==
    /\ page \in Pages
    /\ route = Away
    /\ cache = [k \in Keys |-> InitQuery]
    /\ observer = [k \in Keys |-> [enabled |-> FALSE, timer |-> 0]]
    /\ faults = 0
    /\ events = 0
    /\ last = None
    /\ focused = TRUE

Init == InitApp /\ call = NoCall

\* ------------------------------------------------------------ views
\* CompetitionDetail and TeamDetail: loading panel, error panel or content
\* MatchDetail: error panel first, then the loader
\* variant: a page whose parent query has data keeps showing its content
PageViewKeepingData ==
    IF route = Away THEN "none"
    ELSE LET s == cache[ParentKey(page, route)]
         IN CASE page = "home" -> "content"
              [] page \in {"competition", "team"} ->
                    IF IsLoading(s) THEN "loading"
                    ELSE IF s.data = None THEN "error"
                    ELSE "content"
              [] page = "match" ->
                    IF s.error # None /\ s.data = None THEN "error"
                    ELSE IF IsLoading(s) \/ s.data = None THEN "loading"
                    ELSE "content"

PageView ==
    IF route = Away THEN "none"
    ELSE LET s == cache[ParentKey(page, route)]
         IN CASE page = "home" -> "content"
              [] page \in {"competition", "team"} ->
                    IF IsLoading(s) THEN "loading"
                    ELSE IF s.error # None \/ s.data = None THEN "error"
                    ELSE "content"
              [] page = "match" ->
                    IF s.error # None THEN "error"
                    ELSE IF IsLoading(s) \/ s.data = None THEN "loading"
                    ELSE "content"

\* whether the page shows a button wired to the key's refetch
CanRefetch(k) ==
    /\ k \in Observed
    /\ CASE page = "home" -> cache[k].error # None
         [] page = "competition" ->
               IF k = ParentKey(page, route) THEN PageView = "error"
               ELSE PageView = "content" /\ (cache[k].error # None \/ cache[k].data # None)
         [] page = "team" ->
               IF k = ParentKey(page, route) THEN PageView \in {"error", "content"}
               ELSE PageView = "content"
         [] page = "match" -> FALSE

\* variant: a section shows its data only while no query of the page has an error
SectionShowsUnlessAnyError(k) ==
    [loading |-> IsLoading(cache[k]),
     error |-> cache[k].error # None,
     data |-> cache[k].data # None /\ \A j \in Observed : cache[j].error = None]

\* what a section of the page shows for its query
SectionShows(k) ==
    [loading |-> IsLoading(cache[k]),
     error |-> cache[k].error # None,
     data |-> cache[k].data # None /\ (page = "home" => ~IsLoading(cache[k]))]

\* what the user sees of the key's section: nothing of it behind a page-level panel
SectionView(k) ==
    IF PageView = "content" THEN SectionShows(k)
    ELSE [loading |-> FALSE, error |-> FALSE, data |-> FALSE]

\* ------------------------------------------------------------ actions
\* the events of a run: one fewer on the page with five queries
EventBudget(p) == IF p = "competition" THEN MaxEvents - 1 ELSE MaxEvents

\* a user or clock event, within the bound of the model
Event == events < EventBudget(page) /\ events' = events + 1

\* The router mounts the page on route r, or leaves it (r = Away): the old
\* observers unsubscribe, the new ones subscribe and fetch on mount.
Navigate(r) ==
    /\ last' = "Navigate"
    /\ UNCHANGED <<call, focused>>
    /\ r \in Routes(page) \cup {Away}
    /\ r # route
    /\ LET new == PageKeys(page, r)
           old == Observed \ new
           mounts == {k \in new : ShouldFetchOnMount(page, r, k, cache)}
       IN /\ cache' = [k \in Keys |->
                IF k \in mounts THEN QueryFetch(cache[k], k, FALSE)
                ELSE IF k \in old /\ cache[k].fetchStatus = "fetching"
                     THEN [cache[k] EXCEPT !.retryCancelled = TRUE]
                ELSE cache[k]]
          /\ observer' = [k \in Keys |->
                IF k \in new THEN [enabled |-> Enabled(page, r, k, cache), timer |-> 0]
                ELSE [enabled |-> FALSE, timer |-> 0]]
    /\ route' = r
    /\ UNCHANGED <<page, faults>>
    /\ Event

\* variant: the re-render passes the new options and starts no fetch
RenderWithoutFetch ==
    /\ last' = "Render"
    /\ UNCHANGED <<call, focused>>
    /\ \E k \in Observed : observer[k].enabled # Enabled(page, route, k, cache)
    /\ observer' = [k \in Keys |->
            IF k \in Observed /\ observer[k].enabled # Enabled(page, route, k, cache)
            THEN [enabled |-> Enabled(page, route, k, cache), timer |-> 0] ELSE observer[k]]
    /\ UNCHANGED <<page, route, cache, faults, events>>

\* The page component re-renders after a query update: every hook passes its
\* current `enabled` to its observer (setOptions), and an observer that was just
\* enabled fetches if its query is stale.
Render ==
    /\ last' = "Render"
    /\ UNCHANGED <<call, focused>>
    /\ \E k \in Observed : observer[k].enabled # Enabled(page, route, k, cache)
    /\ LET on(k) == Enabled(page, route, k, cache)
           fetches == {k \in Observed : on(k) /\ ~observer[k].enabled /\ IsStale(cache[k], k)}
       IN /\ cache' = [k \in Keys |->
                IF k \in fetches THEN QueryFetch(cache[k], k, FALSE) ELSE cache[k]]
          /\ observer' = [k \in Keys |->
                IF k \in Observed /\ observer[k].enabled # on(k)
                THEN [enabled |-> on(k), timer |-> 0] ELSE observer[k]]
    /\ UNCHANGED <<page, route, faults, events>>

\* variant: the response is handed to the mounted query of the same hook
ResponseKeyOfMounted(k) ==
    IF \E j \in Observed : Hook(j) = Hook(k)
    THEN CHOOSE j \in Observed : Hook(j) = Hook(k)
    ELSE k

\* the cache entry a response is written to: the queryKey its fetch was started for
ResponseKey(k) == k

\* The HTTP response of the key's request arrives with a body.
Succeed(k) ==
    /\ last' = "Succeed"
    /\ UNCHANGED <<call, focused>>
    /\ cache[k].net = "sent"
    /\ cache' = [cache EXCEPT ![ResponseKey(k)] =
            [@ EXCEPT !.status = "success", !.fetchStatus = "idle", !.data = Arg(k),
                      !.error = None, !.failureCount = 0, !.failureReason = None,
                      !.isInvalidated = FALSE, !.age = 0, !.net = "none",
                      !.attempts = 0, !.retryCancelled = FALSE]]
    /\ UNCHANGED <<page, route, observer, faults, events>>

\* the kinds the response interceptor rejects with
ErrorTypes == {"NETWORK_ERROR", "CLIENT_ERROR", "SERVER_ERROR"}
ValidationError == "Match ID is required"

\* the failures the upstream API is taken to answer with, per page
UpstreamFailures(p) == IF p = "home" THEN ErrorTypes ELSE {"SERVER_ERROR"}

\* variant: retried while the failure count is at most the option
ShouldRetryInclusive(k, s, kind) == s.failureCount <= Retry(Hook(k))

\* retry: <number> -- retried while the failure count is below it, whatever the error
ShouldRetry(k, s, kind) == s.failureCount < Retry(Hook(k))

\* the query's state once the fetch is rejected with err
ErrorState(s, err) ==
    [s EXCEPT !.status = "error", !.fetchStatus = "idle", !.error = err,
              !.failureCount = @ + 1, !.failureReason = err, !.isInvalidated = TRUE,
              !.net = "none", !.retryCancelled = FALSE]

\* The key's attempt fails: the request is rejected by the interceptor with one
\* of its kinds, or the queryFn threw. The retryer schedules a retry or gives up.
Fail(k, kind) ==
    /\ last' = "Fail"
    /\ UNCHANGED <<call, focused>>
    /\ cache[k].net \in {"sent", "threw"}
    /\ IF cache[k].net = "sent" THEN kind \in UpstreamFailures(page) /\ faults < MaxFaults
       ELSE kind = ValidationError
    /\ cache' = [cache EXCEPT ![k] =
            IF @.retryCancelled \/ ~ShouldRetry(k, @, kind)
            THEN ErrorState(@, kind)
            ELSE [@ EXCEPT !.failureCount = @ + 1, !.failureReason = kind, !.net = "wait"]]
    /\ faults' = IF cache[k].net = "sent" THEN faults + 1 ELSE faults
    /\ UNCHANGED <<page, route, observer, events>>

\* The retry delay of the key is over: the queryFn runs again, unless the last
\* observer left meanwhile. The retryer pauses while the window is hidden.
RetryTimer(k) ==
    /\ last' = "RetryTimer"
    /\ UNCHANGED <<call, focused>>
    /\ cache[k].net = "wait"
    /\ focused
    /\ cache' = [cache EXCEPT ![k] =
            IF @.retryCancelled THEN ErrorState(@, @.failureReason)
            ELSE [@ EXCEPT !.net = QueryFn(k),
                           !.attempts = IF QueryFn(k) = "sent" THEN @ + 1 ELSE @]]
    /\ UNCHANGED <<page, route, observer, faults, events>>

\* The user clicks a button wired to refetch(): runs whatever `enabled` says,
\* and replaces a running fetch when the query already has data.
Refetch(k) ==
    /\ last' = "Refetch"
    /\ UNCHANGED <<call, focused>>
    /\ CanRefetch(k)
    /\ cache' = [cache EXCEPT ![k] = QueryFetch(@, k, TRUE)]
    /\ cache'[k].orphans <= MaxOrphans
    /\ UNCHANGED <<page, route, observer, faults>>
    /\ Event

\* The response of a request whose fetch was replaced arrives: nobody listens.
DropOrphan(k) ==
    /\ last' = "DropOrphan"
    /\ UNCHANGED <<call, focused>>
    /\ cache[k].orphans > 0
    /\ cache' = [cache EXCEPT ![k].orphans = @ - 1]
    /\ UNCHANGED <<page, route, observer, faults, events>>

\* The window regains focus: every mounted, enabled, stale query refetches.
\* On the page that polls, hiding the window is a step of its own (Blur); on
\* the others nothing depends on it and Focus stands for hiding and showing.
Focus ==
    /\ last' = "Focus"
    /\ UNCHANGED call
    /\ route # Away
    /\ page = "home" => ~focused
    /\ focused' = TRUE
    /\ LET hit == {k \in Observed : observer[k].enabled /\ IsStale(cache[k], k)}
       IN /\ page # "home" => hit # {}
          /\ cache' = [k \in Keys |->
                IF k \in hit THEN QueryFetch(cache[k], k, FALSE) ELSE cache[k]]
    /\ UNCHANGED <<page, route, observer, faults>>
    /\ Event

\* variant: the interval of a query that was fetched keeps running without observer
TickingWithoutObserver(k) == RefetchInterval(Hook(k)) > 0 /\ EverFetched(cache[k])

\* the observers whose refetchInterval timer runs: mounted and enabled
Ticking(k) == k \in Observed /\ observer[k].enabled /\ RefetchInterval(Hook(k)) > 0

PollDue(k) ==
    /\ Ticking(k)
    /\ observer[k].timer * Tick(page) >= RefetchInterval(Hook(k))

\* variant: the interval timer fetches only data that are stale
PollOnlyWhenStale(k) ==
    /\ last' = "Poll"
    /\ UNCHANGED <<call, focused>>
    /\ PollDue(k)
    /\ cache' = [cache EXCEPT ![k] =
            IF focused /\ IsStale(@, k) THEN QueryFetch(@, k, FALSE) ELSE @]
    /\ observer' = [observer EXCEPT ![k].timer = 0]
    /\ UNCHANGED <<page, route, faults, events>>

\* The refetchInterval timer of a mounted observer fires: it fetches if the
\* window is visible (refetchIntervalInBackground is not set) and runs on.
Poll(k) ==
    /\ last' = "Poll"
    /\ UNCHANGED <<call, focused>>
    /\ PollDue(k)
    /\ cache' = [cache EXCEPT ![k] = IF focused THEN QueryFetch(@, k, FALSE) ELSE @]
    /\ observer' = [observer EXCEPT ![k].timer = 0]
    /\ UNCHANGED <<page, route, faults, events>>

\* The window is hidden (tab in the background).
Blur ==
    /\ last' = "Blur"
    /\ UNCHANGED call
    /\ page = "home"
    /\ route # Away
    /\ focused
    /\ focused' = FALSE
    /\ UNCHANGED <<page, route, cache, observer, faults, events>>

\* One tick of the clock passes: cached data age, poll timers advance.
Elapse ==
    /\ last' = "Elapse"
    /\ UNCHANGED <<call, focused>>
    /\ \A k \in Keys : ~PollDue(k)
    /\ \E k \in Keys : Ticking(k) \/ ~IsStale(cache[k], k)
    /\ cache' = [k \in Keys |->
            IF ~IsStale(cache[k], k) THEN [cache[k] EXCEPT !.age = @ + 1] ELSE cache[k]]
    /\ observer' = [k \in Keys |->
            IF Ticking(k) THEN [observer[k] EXCEPT !.timer = @ + 1] ELSE observer[k]]
    /\ UNCHANGED <<page, route, faults>>
    /\ Event

\* the steps every page takes
Core ==
    \/ \E r \in {"/", "PL", "86", "abc", "1", "2", "0", Away} : Navigate(r)
    \/ \E k \in Keys : Succeed(k)
    \/ \E k \in Keys, kind \in ErrorTypes \cup {ValidationError} : Fail(k, kind)
    \/ \E k \in Keys : RetryTimer(k)
    \/ Focus
    \/ Elapse

\* the steps of a page with refetch buttons
Manual ==
    \/ \E k \in Keys : Refetch(k)
    \/ \E k \in Keys : DropOrphan(k)

Next ==
    \/ Core
    \/ Manual
    \/ Render
    \/ \E k \in Keys : Poll(k)
    \/ Blur

\* Home: one polling query, no gated query
NextHome == Core \/ Manual \/ (\E k \in Keys : Poll(k)) \/ Blur

\* CompetitionDetail, TeamDetail: gated queries and refetch buttons, no polling
NextDetail == Core \/ Manual \/ Render

\* MatchDetail: two ungated queries, no refetch button, no polling
NextMatch == Core

InitPage(p) == Init /\ page = p

SpecHome == InitPage("home") /\ [][NextHome]_vars
SpecCompetition == InitPage("competition") /\ [][NextDetail]_vars
SpecTeam == InitPage("team") /\ [][NextDetail]_vars
SpecMatch == InitPage("match") /\ [][NextMatch]_vars
SpecDetail == (InitPage("competition") \/ InitPage("team")) /\ [][NextDetail]_vars

\* an interval timer that is due fires
FairSpecHome == SpecHome /\ WF_vars(\E k \in Keys : Poll(k))

\* the re-render that follows a query update is not postponed forever
FairSpecCompetition == SpecCompetition /\ WF_vars(Render)
Spec == Init /\ [][Next]_vars

\* ------------------------------------------------------------ properties
\* the parent query a gated query waits for (the query itself if it has none)
ParentOf(k) ==
    CASE Hook(k) \in CompetitionChildren -> <<"useFullCompetition", Arg(k), "">>
      [] Hook(k) = "useTeamMatches" -> <<"useTeam", Arg(k), "">>
      [] OTHER -> k

Gated == {k \in Keys : ParentOf(k) # k}

\* the step puts a new HTTP request of the key on the network
Issued(k) ==
    /\ cache'[k].net = "sent"
    /\ cache[k].net # "sent" \/ cache'[k].orphans > cache[k].orphans

\* the key holds the result of a successful fetch that is younger than staleTime
Fresh(k) == cache[k].status = "success" /\ ~IsStale(cache[k], k)

\* a request of the key was started at some point
EverIssued(k) == EverFetched(cache[k])

\* C1: no request of a child query (standings, scorers, teams, matches of a
\* competition; the match lists of a team) is issued while its parent query is
\* loading or in error.
C1_ChildrenWaitForParent ==
    [][\A k \in Gated :
          Issued(k) => ~(IsLoading(cache[ParentOf(k)]) \/ cache[ParentOf(k)].status = "error")]_vars

\* C2: a hook whose id or code is missing never puts a request on the network,
\* not even through the refetch of a retry button, and the only error it
\* reports is the validation failure.
C2_NoRequestWithoutId ==
    \A k \in Keys :
        ~Truthy(Arg(k)) =>
            /\ cache[k].net # "sent"
            /\ cache[k].error \in {None, ValidationError}

\* C3: a fetch that failed with CLIENT_ERROR is not retried: the error is
\* surfaced after that one request, no retry is scheduled or running.
C3_ClientErrorNotRetried ==
    \A k \in Keys : cache[k].failureReason = "CLIENT_ERROR" => cache[k].fetchStatus = "idle"

\* C4: a fetch makes at most 3 attempts (2 for head-to-head), and a query that
\* gave up stays in error and issues no request until a refetch (button, mount,
\* focus) or a poll triggers one.
C4_AttemptsBounded ==
    /\ [](\A k \in Keys : cache[k].attempts <= IF Hook(k) = "useHead2Head" THEN 2 ELSE 3)
    /\ [][\A k \in Keys :
            (cache[k].status = "error" /\ cache[k].fetchStatus = "idle" /\ Issued(k))
                => last' \in {"Refetch", "Navigate", "Render", "Focus", "Poll"}]_vars

\* C4 case: a mounted query gave up after its third attempt
C4_GaveUpAfterThree ==
    \E k \in Observed :
        /\ cache[k].status = "error"
        /\ cache[k].fetchStatus = "idle"
        /\ cache[k].attempts = 3

\* C5 (as stated): while a key holds a fresh successful result, no network call
\* is made for it.
C5_NoCallWhileFresh ==
    [][\A k \in Keys : Fresh(k) => ~Issued(k)]_vars

\* C5 (amended): while a key holds a fresh successful result, a consumer that
\* subscribes to it, re-renders or regains focus issues no network call; only
\* the interval poll, an explicit refetch and the retries of their fetches do.
C5_FreshSubscribeIssuesNoCall ==
    [][\A k \in Keys :
          (Fresh(k) /\ Issued(k)) => last' \in {"Poll", "Refetch", "RetryTimer"}]_vars

\* C5 case: a consumer has just mounted on a key whose result is one tick old
\* and fresh, and nothing was fetched
C5_MountedOnFresh ==
    /\ last = "Navigate"
    /\ \E k \in Observed :
          /\ Fresh(k)
          /\ cache[k].age >= 1
          /\ cache[k].fetchStatus = "idle"

C7_LateResponseStaysWithItsKey ==
    /\ [](\A k \in Keys : cache[k].data \in {None, Arg(k)})
    /\ [][last' \in {"Succeed", "Fail", "RetryTimer", "DropOrphan"}
            => \A k \in Keys \ Observed :
                  cache'[k] # cache[k] => \A j \in Observed : cache'[j] = cache[j]]_vars

\* C7 case: the response for match 1 has just arrived while the page is on match 2
C7_LateResponseArrived ==
    /\ page = "match"
    /\ route = "2"
    /\ last = "Succeed"
    /\ cache[<<"useMatchById", "1", "">>].status = "success"
    /\ \A k \in Keys \ {<<"useMatchById", "1", "">>} : cache[k].data = None

\* C8: when the query of a section moves to error, the cache entry and the view
\* of every other query of the page are left as they were.
C8_SectionErrorIsIsolated ==
    [][\A k \in Observed :
          (k # ParentKey(page, route) /\ cache'[k].status = "error" /\ cache[k].status # "error")
              => \A j \in Observed \ {k} :
                    cache'[j] = cache[j] /\ SectionView(j)' = SectionView(j)]_vars

\* C8 case: a section has just failed next to a sibling that shows its data
C8_ErrorNextToData ==
    /\ last = "Fail"
    /\ PageView = "content"
    /\ \E k, j \in ChildKeys(page, route) :
          /\ k # j
          /\ cache[k].status = "error"
          /\ SectionView(k).error
          /\ SectionView(j).data

\* C9: once the competition query has succeeded on a mounted page, the request
\* of each of the four child queries is eventually issued without user action
\* (or the page is left).
C9_ChildrenEventuallyIssued ==
    \A h \in CompetitionChildren :
        (route = "PL" /\ cache[<<"useFullCompetition", "PL", "">>].status = "success")
            ~> (route # "PL" \/ EverIssued(<<h, "PL", "">>))

\* C9 case: the re-render after the parent's success has put all four child
\* requests on the network
C9_AllChildrenIssued ==
    /\ route = "PL"
    /\ last = "Render"
    /\ cache[<<"useFullCompetition", "PL", "">>].status = "success"
    /\ \A h \in CompetitionChildren : cache[<<h, "PL", "">>].net = "sent"

\* C10: a section enters success or error only from loading, and a refetch
\* from success or error puts it back in loading, so that the loading
\* indicator is shown again.
C10_RefetchReentersLoading ==
    [][\A k \in Keys :
          /\ (cache'[k].status # cache[k].status /\ cache'[k].status \in {"success", "error"})
                => IsLoading(cache[k])
          /\ (last' = "Refetch" /\ Issued(k) /\ cache[k].status \in {"success", "error"})
                => IsLoading(cache'[k])]_vars

\* whether the page shows the error of the key's query: the page-level error
\* panel for the main query of a detail page, the section's own error otherwise
ShowsError(k) ==
    IF page # "home" /\ k = ParentKey(page, route)
    THEN PageView = "error" /\ cache[k].error # None
    ELSE SectionView(k).error

\* C11: every section whose query is in error shows its error together with a
\* retry action wired to that query's refetch.
C11_ErrorHasRetry ==
    \A k \in Observed : ShowsError(k) => CanRefetch(k)

\* ------------------------------------------------ api/axios.config: errors
appVars == <<page, route, cache, observer, faults, events, last, focused>>

\* a call about to be made with the argument, and the call once it returned
Pending(fn, arg) == [fn |-> fn, arg |-> arg, done |-> FALSE]
Returned(c, result) == [fn |-> c.fn, arg |-> c.arg, done |-> TRUE, result |-> result]

\* the application before any page is mounted, about to call fn with one of the inputs
InitCalls(fn, inputs) ==
    /\ InitApp
    /\ page = "home"
    /\ call \in {Pending(fn, x) : x \in inputs}

\* the kinds of the ApiError type
ApiErrorTypes == ErrorTypes \cup {"UNKNOWN_ERROR"}

\* HTTP statuses axios rejects (validateStatus: anything outside 2xx)
Statuses == (100 .. 101) \cup (300 .. 308) \cup (400 .. 431) \cup {451, 499} \cup (500 .. 511) \cup {599}

\* the `error` field of the response body: no body, no field, empty, a text
BodyErrors == {"nobody", "undefined", "", "You reached your request limit."}

\* the errors axios hands to the response interceptor: without a response
\* (connection failure, the 10 s timeout, an aborted request) or with one
AxiosErrors ==
    {[response |-> <<>>, code |-> c, message |-> c] :
        c \in {"Network Error", "timeout of 10000ms exceeded", "Request aborted"}}
    \cup {[response |-> <<[status |-> st, data |-> d]>>,
           code |-> "ERR_BAD_RESPONSE", message |-> "Request failed"] :
            st \in Statuses, d \in BodyErrors}

\* variant: the 4xx branch starts above 400
ErrorTypeAbove400(error) ==
    IF error.response = <<>> THEN "NETWORK_ERROR"
    ELSE LET status == error.response[1].status
         IN IF status > 400 /\ status < 500 THEN "CLIENT_ERROR"
            ELSE IF status >= 500 THEN "SERVER_ERROR"
            ELSE "UNKNOWN_ERROR"

\* the branch of the response interceptor's error handler that is taken
ErrorType(error) ==
    IF error.response = <<>> THEN "NETWORK_ERROR"
    ELSE LET status == error.response[1].status
         IN IF status >= 400 /\ status < 500 THEN "CLIENT_ERROR"
            ELSE IF status >= 500 THEN "SERVER_ERROR"
            ELSE "UNKNOWN_ERROR"

RateLimitMessage == "Limite de peticiones excedido. Intenta de nuevo mas tarde."

\* the switch over the 4xx status
ClientErrorMessage(status) ==
    CASE status = 400 -> "Peticion incorrecta. Los parametros no son validos."
      [] status = 403 -> "Acceso denegado. Verifica tu API Key o el plan de suscripcion."
      [] status = 404 -> "Recurso no encontrado."
      [] status = 429 -> RateLimitMessage
      [] OTHER -> "Error en la peticion"

\* data?.error || errorMessage
BodyErrorOr(d, errorMessage) == IF d \in {"nobody", "undefined", ""} THEN errorMessage ELSE d

\* the error handler of the response interceptor: the promise it returns
ErrorHandler(error) ==
    LET type == ErrorType(error)
    IN [promise |-> "rejected",
        reason |->
          CASE type = "NETWORK_ERROR" ->
                 [message |-> "No se puede conectar al servidor. " \o error.message,
                  type |-> type, originalError |-> error]
            [] type = "CLIENT_ERROR" ->
                 [message |-> BodyErrorOr(error.response[1].data,
                                          ClientErrorMessage(error.response[1].status)),
                  status |-> error.response[1].status,
                  type |-> type, originalError |-> error]
            [] type = "SERVER_ERROR" ->
                 [message |-> "Error en el servidor. Intenta de nuevo mas tarde.",
                  status |-> error.response[1].status,
                  type |-> type, originalError |-> error]
            [] OTHER ->
                 [message |-> "Ha ocurrido un error inesperado",
                  type |-> type, originalError |-> error]]

\* A request of the axios instance fails and the response interceptor handles it.
ResponseError ==
    /\ call.fn = "responseError"
    /\ ~call.done
    /\ call' = Returned(call, ErrorHandler(call.arg))
    /\ UNCHANGED appVars

NextInterceptor == ResponseError

SpecInterceptor == InitCalls("responseError", AxiosErrors) /\ [][NextInterceptor]_vars

\* C12: every failed request is rejected, never resolved, with exactly one of
\* the four kinds: NETWORK_ERROR iff there is no response (the timeout
\* included), CLIENT_ERROR with the status iff 400 <= status < 500,
\* SERVER_ERROR with the status iff status >= 500, UNKNOWN_ERROR otherwise.
C12_RejectedWithOneKind ==
    (call.fn = "responseError" /\ call.done) =>
        LET e == call.arg
            r == call.result.reason
            has == e.response # <<>>
            st == e.response[1].status
        IN /\ call.result.promise = "rejected"
           /\ r.type \in ApiErrorTypes
           /\ r.type = "NETWORK_ERROR" <=> ~has
           /\ r.type = "CLIENT_ERROR" <=> (has /\ st >= 400 /\ st < 500)
           /\ r.type = "SERVER_ERROR" <=> (has /\ st >= 500)
           /\ r.type = "UNKNOWN_ERROR" <=> (has /\ st < 400)
           /\ r.type \in {"CLIENT_ERROR", "SERVER_ERROR"} => r.status = st

\* C12 case: the 10 s timeout was handled
C12_TimeoutHandled ==
    /\ call.fn = "responseError"
    /\ call.done
    /\ call.arg.message = "timeout of 10000ms exceeded"
    /\ call.result.reason.type = "NETWORK_ERROR"

\* ------------------------------------------------ pages: error messages
\* the places of the pages that render the error of a query
Sections ==
    {"Home", "Competitions", "CompetitionDetail", "TeamDetail", "MatchDetail",
     "standings", "competitionMatches", "scorers", "teams",
     "lastMatches", "nextMatches", "head2head"}

\* the fixed text of each place
GenericMessage(section) ==
    CASE section = "Home" -> "No se pudieron cargar los partidos. Verifica tu conexion a internet."
      [] section = "Competitions" -> "No se pudieron cargar las competiciones. Por favor, intentalo de nuevo."
      [] section = "CompetitionDetail" -> "No se pudo cargar la informacion de la competicion"
      [] section = "TeamDetail" -> "No se pudo cargar la informacion del equipo"
      [] section = "MatchDetail" -> "No se pudo cargar la informacion del partido"
      [] section = "standings" -> "No se pudo cargar la clasificacion"
      [] section = "competitionMatches" -> "No se pudieron cargar los proximos partidos"
      [] section = "scorers" -> "No se pudieron cargar los goleadores"
      [] section = "teams" -> "No se pudieron cargar los equipos"
      [] section = "lastMatches" -> "No se pudieron cargar los ultimos partidos"
      [] section = "nextMatches" -> "No se pudieron cargar los proximos partidos"
      [] section = "head2head" -> "No se pudo cargar el historial de enfrentamientos"

\* The text a place shows for a rejection of the interceptor: the page-level
\* panels pass error.message on, MatchDetail only for an instance of Error
\* (the interceptor rejects with a plain object), the sections show fixed text.
ShownMessage(section, reason) ==
    IF section \in {"Home", "Competitions", "CompetitionDetail", "TeamDetail"}
    THEN IF reason.message # "" THEN reason.message ELSE GenericMessage(section)
    ELSE GenericMessage(section)

\* A query of the place fails with the error and the place renders it.
ShowError ==
    /\ call.fn = "showError"
    /\ ~call.done
    /\ call' = Returned(call,
                [reason |-> ErrorHandler(call.arg.error).reason,
                 shown |-> ShownMessage(call.arg.section, ErrorHandler(call.arg.error).reason)])
    /\ UNCHANGED appVars

NextErrorView == ShowError

SpecErrorView ==
    InitCalls("showError", [section : Sections, error : AxiosErrors]) /\ [][NextErrorView]_vars

\* C13: a 429 response reaches the view distinctly: the rejection carries
\* status 429 and a rate-limit message (not the generic client-error text),
\* and the failing section shows that message, not its generic failure text.
C13_RateLimitReachesView ==
    (call.fn = "showError" /\ call.done /\ call.arg.error.response # <<>>
        /\ call.arg.error.response[1].status = 429)
    => /\ call.result.reason.status = 429
       /\ call.result.reason.message # ClientErrorMessage(499)
       /\ call.result.shown = call.result.reason.message
       /\ call.result.shown # GenericMessage(call.arg.section)

\* ------------------------------------------------ hooks/useMatches: query keys
Flags == {"lineups", "bookings", "substitutions", "goals"}

\* An UnfoldOptions object: the flags set to true, the flags set to false and
\* the flags present with the value undefined; the other flags are absent.
UnfoldOptions ==
    {[on |-> a, off |-> b, undef |-> c] :
        <<a, b, c>> \in {t \in (SUBSET Flags) \X (SUBSET Flags) \X (SUBSET Flags) :
                            /\ t[1] \cap t[2] = {}
                            /\ t[1] \cap t[3] = {}
                            /\ t[2] \cap t[3] = {}}}

\* unfoldOptions.<flag> !== undefined
Defined(u, f) == f \in u.on \cup u.off

\* String(<boolean>)
String(b) == IF b THEN "true" ELSE "false"

HeaderName(f) ==
    CASE f = "lineups" -> "X-Unfold-Lineups"
      [] f = "bookings" -> "X-Unfold-Bookings"
      [] f = "substitutions" -> "X-Unfold-Subs"
      [] f = "goals" -> "X-Unfold-Goals"

\* variant: a header is only sent for a flag that is true
UnfoldHeadersOnlyTrue(u) == {<<HeaderName(f), String(TRUE)>> : f \in u.on}

\* the headers object the service builds from the unfold options
UnfoldHeaders(u) == {<<HeaderName(f), String(f \in u.on)>> : f \in {g \in Flags : Defined(u, g)}}

\* JSON.stringify of a property with sorted keys: an undefined value is left out
JsonProp(u, f) == IF Defined(u, f) THEN f \o ":" \o String(f \in u.on) \o ";" ELSE ""

\* hashKey of an UnfoldOptions object
JsonUnfold(u) ==
    "{" \o JsonProp(u, "bookings") \o JsonProp(u, "goals") \o JsonProp(u, "lineups")
        \o JsonProp(u, "substitutions") \o "}"

JsonString(x) == "'" \o x \o "'"

\* JSON.stringify of an array element that may be undefined
JsonStringOrNull(x) == IF x = "undefined" THEN "null" ELSE JsonString(x)

NoUnfold == [on |-> {}, off |-> {}, undef |-> {}]

\* the hook calls considered: hook, id, limit, options, dates, competitions, flags
Invocation(h, id, limit, options, comps, u) ==
    [hook |-> h, id |-> id, limit |-> limit, options |-> options, competitions |-> comps,
     unfold |-> u]

Invocations ==
    {Invocation("useMatchById", id, "", "", "", u) : id \in {"1", "2"}, u \in UnfoldOptions}
    \cup {Invocation("useHead2Head", "1", l, "", "", u) : l \in {"5", "10"}, u \in UnfoldOptions}
    \cup {Invocation(h, "", "", "", "", u) : h \in {"useTodayMatches", "useLiveMatches"},
                                              u \in UnfoldOptions}
    \cup {Invocation("useMatches", "", "", o, "", u) : o \in {"", "status:FINISHED;"},
                                                       u \in UnfoldOptions}
    \cup {Invocation("useScheduledMatches", "", "", "", c, NoUnfold) : c \in {"undefined", "PL"}}
    \cup {Invocation("useCompetitions", "", "", o, "", NoUnfold) : o \in {"", "areas=2077"}}
    \cup {Invocation(h, c, "", "", "", NoUnfold) :
            h \in {"useCompetitionByCode", "useFullCompetition"}, c \in {"PL", "CL"}}
    \cup {Invocation("useCompetitionById", id, "", "", "", NoUnfold) : id \in {"2021"}}

\* variant: the key of useHead2Head leaves the unfold options out
QueryKeyHashWithoutUnfold(i) ==
    CASE i.hook = "useMatches" ->
            "[" \o JsonString("matches") \o ",{" \o i.options \o "}," \o JsonUnfold(i.unfold) \o "]"
      [] i.hook = "useTodayMatches" ->
            "[" \o JsonString("matches") \o "," \o JsonString("today") \o "," \o JsonUnfold(i.unfold) \o "]"
      [] i.hook = "useLiveMatches" ->
            "[" \o JsonString("matches") \o "," \o JsonString("live") \o "," \o JsonUnfold(i.unfold) \o "]"
      [] i.hook = "useMatchById" ->
            "[" \o JsonString("match") \o "," \o i.id \o "," \o JsonUnfold(i.unfold) \o "]"
      [] i.hook = "useHead2Head" ->
            "[" \o JsonString("match") \o "," \o i.id \o "," \o JsonString("head2head") \o ","
                \o i.limit \o "]"
      [] i.hook = "useScheduledMatches" ->
            "[" \o JsonString("matches") \o "," \o JsonString("scheduled") \o ","
                \o JsonString("2024-03-01") \o "," \o JsonString("2024-03-07") \o ","
                \o JsonStringOrNull(i.competitions) \o "]"
      [] i.hook = "useCompetitions" ->
            "[" \o JsonString("competitions") \o ",{" \o i.options \o "}]"
      [] i.hook = "useCompetitionByCode" ->
            "[" \o JsonString("competition") \o "," \o JsonString("code") \o ","
                \o JsonString(i.id) \o "]"
      [] i.hook = "useFullCompetition" ->
            "[" \o JsonString("competition") \o "," \o JsonString("full") \o ","
                \o JsonString(i.id) \o "]"
      [] i.hook = "useCompetitionById" ->
            "[" \o JsonString("competition") \o "," \o JsonString("id") \o "," \o i.id \o "]"

\* the queryKey of the hook call as the query cache hashes it (hashKey:
\* JSON.stringify with the keys of objects sorted)
QueryKeyHash(i) ==
    CASE i.hook = "useMatches" ->
            "[" \o JsonString("matches") \o ",{" \o i.options \o "}," \o JsonUnfold(i.unfold) \o "]"
      [] i.hook = "useTodayMatches" ->
            "[" \o JsonString("matches") \o "," \o JsonString("today") \o "," \o JsonUnfold(i.unfold) \o "]"
      [] i.hook = "useLiveMatches" ->
            "[" \o JsonString("matches") \o "," \o JsonString("live") \o "," \o JsonUnfold(i.unfold) \o "]"
      [] i.hook = "useMatchById" ->
            "[" \o JsonString("match") \o "," \o i.id \o "," \o JsonUnfold(i.unfold) \o "]"
      [] i.hook = "useHead2Head" ->
            "[" \o JsonString("match") \o "," \o i.id \o "," \o JsonString("head2head") \o ","
                \o i.limit \o "," \o JsonUnfold(i.unfold) \o "]"
      [] i.hook = "useScheduledMatches" ->
            "[" \o JsonString("matches") \o "," \o JsonString("scheduled") \o ","
                \o JsonString("2024-03-01") \o "," \o JsonString("2024-03-07") \o ","
                \o JsonStringOrNull(i.competitions) \o "]"
      [] i.hook = "useCompetitions" ->
            "[" \o JsonString("competitions") \o ",{" \o i.options \o "}]"
      [] i.hook = "useCompetitionByCode" ->
            "[" \o JsonString("competition") \o "," \o JsonString("code") \o ","
                \o JsonString(i.id) \o "]"
      [] i.hook = "useFullCompetition" ->
            "[" \o JsonString("competition") \o "," \o JsonString("full") \o ","
                \o JsonString(i.id) \o "]"
      [] i.hook = "useCompetitionById" ->
            "[" \o JsonString("competition") \o "," \o JsonString("id") \o "," \o i.id \o "]"

\* the HTTP request the hook's queryFn makes through its service
Request(i) ==
    CASE i.hook = "useMatches" ->
            [url |-> "/matches", params |-> i.options, headers |-> UnfoldHeaders(i.unfold)]
      [] i.hook = "useTodayMatches" ->
            [url |-> "/matches", params |-> "", headers |-> UnfoldHeaders(i.unfold)]
      [] i.hook = "useLiveMatches" ->
            [url |-> "/matches", params |-> "status:IN_PLAY;", headers |-> UnfoldHeaders(i.unfold)]
      [] i.hook = "useMatchById" ->
            [url |-> "/matches/" \o i.id, params |-> "", headers |-> UnfoldHeaders(i.unfold)]
      [] i.hook = "useHead2Head" ->
            [url |-> "/matches/" \o i.id \o "/head2head", params |-> "limit:" \o i.limit \o ";",
             headers |-> UnfoldHeaders(i.unfold)]
      [] i.hook = "useScheduledMatches" ->
            [url |-> "/matches",
             params |-> "dateFrom:2024-03-01;dateTo:2024-03-07;status:SCHEDULED;"
                        \o (IF i.competitions = "undefined" THEN ""
                            ELSE "competitions:" \o i.competitions \o ";"),
             headers |-> UnfoldHeaders(NoUnfold)]
      [] i.hook = "useCompetitions" ->
            [url |-> IF i.options = "" THEN "/competitions" ELSE "/competitions?" \o i.options,
             params |-> "", headers |-> {}]
      [] i.hook \in {"useCompetitionByCode", "useFullCompetition", "useCompetitionById"} ->
            [url |-> "/competitions/" \o i.id, params |-> "", headers |-> {}]

\* A component calls the hook: useQuery looks the key up and the queryFn is
\* what fills it.
UseQuery ==
    /\ call.fn = "useQuery"
    /\ ~call.done
    /\ call' = Returned(call, [queryHash |-> QueryKeyHash(call.arg),
                               request |-> Request(call.arg),
                               staleTime |-> StaleTime(call.arg.hook),
                               refetchInterval |-> RefetchInterval(call.arg.hook)])
    /\ UNCHANGED appVars

NextQueryKeys == UseQuery

SpecQueryKeys == InitCalls("useQuery", Invocations) /\ [][NextQueryKeys]_vars

\* C14: a hook call whose request differs from that of another hook call (in
\* url, parameters or any unfold header, false versus undefined included) has
\* a different cache key, so it is never served the other's result.
C14_DifferentRequestDifferentKey ==
    (call.fn = "useQuery" /\ call.done) =>
        \A other \in Invocations :
            Request(other) # call.result.request
                => QueryKeyHash(other) # call.result.queryHash

\* C14 case: the hook was called with a flag set to false while the call that
\* leaves that flag undefined has another key
C14_FalseVersusUndefined ==
    /\ call.fn = "useQuery"
    /\ call.done
    /\ call.arg.hook = "useHead2Head"
    /\ call.arg.unfold = [on |-> {}, off |-> {"goals"}, undef |-> {"lineups"}]
    /\ call.result.queryHash # QueryKeyHash([call.arg EXCEPT !.unfold = NoUnfold])

\* the keys of the volatile resources: the hooks that set refetchInterval
Polled == {k \in Keys : RefetchInterval(Hook(k)) > 0}

\* no request is issued by the interval timer of a key without a mounted, enabled observer
PollOnlyWhileMounted ==
    [][\A k \in Polled :
          (last' = "Poll" /\ Issued(k)) => (k \in Observed /\ observer[k].enabled)]_vars

MaxGoals == 2
MaxBookings == 2
MaxSubstitutions == 1

\* an optional value: <<>> when undefined or null, <<x>> when present
Optional(S) == {<<>>} \cup {<<x>> : x \in S}

SeqsUpTo(S, n) == UNION {[1 .. m -> S] : m \in 0 .. n}

Goals == [minute : {10, 45}, injuryTime : Optional({2})]
Bookings == [minute : {10, 46, 48}]
Substitutions == [minute : {10, 47}]

\* the event lists of a Match, each of which may be missing
Matches ==
    [goals : Optional(SeqsUpTo(Goals, MaxGoals)),
     bookings : Optional(SeqsUpTo(Bookings, MaxBookings)),
     substitutions : Optional(SeqsUpTo(Substitutions, MaxSubstitutions))]

\* variant: the additional time of a goal is not added
GoalMinuteNominal(goal) == goal.minute

\* goal.minute + (goal.injuryTime || 0)
GoalMinute(goal) ==
    goal.minute + (IF goal.injuryTime = <<>> \/ goal.injuryTime[1] = 0 THEN 0
                   ELSE goal.injuryTime[1])

\* list?.forEach(push): the events of one list, none if the list is missing;
\* data refers to the i-th element of the list (only a goal has an injuryTime)
Pushed(list, type) ==
    IF list = <<>> THEN <<>>
    ELSE [i \in 1 .. Len(list[1]) |->
            [minute |-> IF type = "goal" THEN GoalMinute(list[1][i]) ELSE list[1][i].minute,
             type |-> type,
             data |-> [ref |-> i, minute |-> list[1][i].minute,
                       injuryTime |-> IF type = "goal" THEN list[1][i].injuryTime ELSE <<>>]]]

\* variant: an element is placed before the elements of the same minute
InsertBeforeEqual(sorted, e) ==
    LET p == Cardinality({i \in 1 .. Len(sorted) : sorted[i].minute < e.minute})
    IN SubSeq(sorted, 1, p) \o <<e>> \o SubSeq(sorted, p + 1, Len(sorted))

\* one step of the sort: the element goes after every element that does not
\* compare greater (Array.prototype.sort is stable)
InsertStable(sorted, e) ==
    LET p == Cardinality({i \in 1 .. Len(sorted) : sorted[i].minute - e.minute <= 0})
    IN SubSeq(sorted, 1, p) \o <<e>> \o SubSeq(sorted, p + 1, Len(sorted))

RECURSIVE SortByMinute(_)
\* events.sort((a, b) => a.minute - b.minute)
SortByMinute(pushed) ==
    IF pushed = <<>> THEN <<>>
    ELSE InsertStable(SortByMinute(SubSeq(pushed, 1, Len(pushed) - 1)), pushed[Len(pushed)])

\* variant: the bookings are only read when the goals are there
CollectedWithGoals(match) ==
    Pushed(match.goals, "goal")
        \o (IF match.goals = <<>> THEN <<>> ELSE Pushed(match.bookings, "booking"))
        \o Pushed(match.substitutions, "substitution")

\* the events array before the sort: goals, then bookings, then substitutions
Collected(match) ==
    Pushed(match.goals, "goal") \o Pushed(match.bookings, "booking")
        \o Pushed(match.substitutions, "substitution")

getTimelineEvents(match) == SortByMinute(Collected(match))

\* variant: the badge starts with the minute of the goal as the API gives it
BadgeWithNominalMinute(event) ==
    ToString(event.data.minute) \o "'"
        \o (IF event.type = "goal" /\ event.data.injuryTime # <<>> /\ event.data.injuryTime[1] # 0
            THEN " +" \o ToString(event.data.injuryTime[1])
            ELSE "")

\* the text of the badge of a timeline item:
\* {event.minute}'{goal with injuryTime ? ` +${injuryTime}` : ''}
Badge(event) ==
    ToString(event.minute) \o "'"
        \o (IF event.type = "goal" /\ event.data.injuryTime # <<>> /\ event.data.injuryTime[1] # 0
            THEN " +" \o ToString(event.data.injuryTime[1])
            ELSE "")

\* what MatchTimeline renders for the events
TimelineView(timelineEvents) ==
    IF Len(timelineEvents) = 0 THEN "empty-state" ELSE "timeline"

\* what the events tab of MatchDetail shows: the tab and its panel exist only
\* if one of the lists is there
EventsTab(match) ==
    IF match.goals # <<>> \/ match.bookings # <<>> \/ match.substitutions # <<>>
    THEN TimelineView(getTimelineEvents(match))
    ELSE "no-tab"

\* MatchDetail renders the match it loaded.
RenderTimeline ==
    /\ call.fn = "MatchTimeline"
    /\ ~call.done
    /\ call' = Returned(call, [events |-> getTimelineEvents(call.arg),
                               view |-> TimelineView(getTimelineEvents(call.arg)),
                               badges |-> [i \in 1 .. Len(getTimelineEvents(call.arg)) |->
                                              Badge(getTimelineEvents(call.arg)[i])],
                               tab |-> EventsTab(call.arg)])
    /\ UNCHANGED appVars

NextTimeline == RenderTimeline

SpecTimeline == InitCalls("MatchTimeline", Matches) /\ [][NextTimeline]_vars

\* the element of the match an event was made from
SourceOf(match, e) ==
    CASE e.type = "goal" -> match.goals[1][e.data.ref]
      [] e.type = "booking" -> match.bookings[1][e.data.ref]
      [] e.type = "substitution" -> match.substitutions[1][e.data.ref]

\* the effective minute as the specification of the merge defines it
EffectiveMinute(match, e) ==
    IF e.type = "goal"
    THEN SourceOf(match, e).minute
            + (IF SourceOf(match, e).injuryTime = <<>> THEN 0
               ELSE SourceOf(match, e).injuryTime[1])
    ELSE SourceOf(match, e).minute

TimelineDone == call.fn = "MatchTimeline" /\ call.done

\* C16: the merge returns its events in ascending order of effective minute:
\* minute plus additional time (null as 0) for a goal, minute for a booking or
\* substitution.
C16_AscendingEffectiveMinute ==
    TimelineDone =>
        LET out == call.result.events
        IN /\ \A i \in 1 .. Len(out) : out[i].minute = EffectiveMinute(call.arg, out[i])
           /\ \A i, j \in 1 .. Len(out) :
                 i < j => EffectiveMinute(call.arg, out[i]) <= EffectiveMinute(call.arg, out[j])

\* C16 case: a goal at 45+2 between a booking at 46 and a booking at 48
C16_GoalBetweenBookings ==
    /\ TimelineDone
    /\ call.arg.goals = << <<[minute |-> 45, injuryTime |-> <<2>>]>> >>
    /\ call.arg.bookings = << <<[minute |-> 46], [minute |-> 48]>> >>
    /\ call.arg.substitutions = <<>>
    /\ [i \in 1 .. 3 |-> call.result.events[i].type] = <<"booking", "goal", "booking">>
    /\ [i \in 1 .. 3 |-> call.result.events[i].minute] = <<46, 47, 48>>

TypeRank(type) == CASE type = "goal" -> 1 [] type = "booking" -> 2 [] type = "substitution" -> 3

\* C17: among events of the same effective minute, goals come before bookings
\* before substitutions, and events of one list keep their relative order.
C17_TiesKeepSourceOrder ==
    TimelineDone =>
        LET out == call.result.events
        IN \A i, j \in 1 .. Len(out) :
              (i < j /\ out[i].minute = out[j].minute)
                  => \/ TypeRank(out[i].type) < TypeRank(out[j].type)
                     \/ (out[i].type = out[j].type /\ out[i].data.ref < out[j].data.ref)

\* C17 case: goals = [g@10], bookings = [b@10], no substitutions gives [g@10, b@10]
C17_GoalThenBookingAtTen ==
    /\ TimelineDone
    /\ call.arg.goals = << <<[minute |-> 10, injuryTime |-> <<>>]>> >>
    /\ call.arg.bookings = << <<[minute |-> 10]>> >>
    /\ call.arg.substitutions = << <<>> >>
    /\ [i \in 1 .. 2 |-> call.result.events[i].type] = <<"goal", "booking">>

\* the events of the lists that are present, each tagged with its list and position
PresentEvents(match) ==
    {<<"goal", i>> : i \in 1 .. (IF match.goals = <<>> THEN 0 ELSE Len(match.goals[1]))}
    \cup {<<"booking", i>> : i \in 1 .. (IF match.bookings = <<>> THEN 0 ELSE Len(match.bookings[1]))}
    \cup {<<"substitution", i>> :
            i \in 1 .. (IF match.substitutions = <<>> THEN 0 ELSE Len(match.substitutions[1]))}

\* the output holds every event of the present lists exactly once and nothing else
ExactlyThePresentEvents ==
    LET out == call.result.events
    IN /\ {<<out[i].type, out[i].data.ref>> : i \in 1 .. Len(out)} = PresentEvents(call.arg)
       /\ Len(out) = Cardinality(PresentEvents(call.arg))

\* C18 (as stated): for every combination of present and absent lists the
\* output holds exactly the events of the present lists, and when there is no
\* event (lists absent or empty) the empty-state panel is shown.
C18_EveryEventOnceOrEmptyState ==
    TimelineDone =>
        /\ ExactlyThePresentEvents
        /\ PresentEvents(call.arg) = {} => call.result.tab = "empty-state"

\* C18 (amended): for every combination of present and absent lists the output
\* holds exactly the events of the present lists; MatchTimeline renders the
\* empty-state panel exactly when there is no event, and MatchDetail shows it
\* when a list is present and all present lists are empty; with all three lists
\* absent MatchDetail renders no events tab at all.
C18_EveryEventOnceAndEmptyStateIfListed ==
    TimelineDone =>
        LET listed == call.arg.goals # <<>> \/ call.arg.bookings # <<>>
                        \/ call.arg.substitutions # <<>>
        IN /\ ExactlyThePresentEvents
           /\ call.result.view = "empty-state" <=> PresentEvents(call.arg) = {}
           /\ (listed /\ PresentEvents(call.arg) = {}) => call.result.tab = "empty-state"
           /\ listed => call.result.tab = call.result.view
           /\ ~listed => call.result.tab = "no-tab"

\* C18 case: the goals are an empty list, bookings and substitutions are absent,
\* and the events tab shows the empty-state panel
C18_EmptyListShowsEmptyState ==
    /\ TimelineDone
    /\ call.arg.goals = << <<>> >>
    /\ call.arg.bookings = <<>>
    /\ call.arg.substitutions = <<>>
    /\ call.result.events = <<>>
    /\ call.result.tab = "empty-state"

\* ------------------------------------------------------------ api/services
\* a call of a service method: the id or code, the options that are set and the
\* unfold options it is given
ServiceCall(service, method, id, options, u) ==
    [service |-> service, method |-> method, id |-> id, options |-> options, unfold |-> u]

ServiceCalls ==
    {ServiceCall("MatchesService", m, "", "", u) :
        m \in {"getMatches", "getTodayMatches", "getLiveMatches"}, u \in UnfoldOptions}
    \cup {ServiceCall("MatchesService", "getMatches", "", "status:FINISHED;", NoUnfold)}
    \cup {ServiceCall("MatchesService", "getMatchById", "1", "", u) : u \in UnfoldOptions}
    \cup {ServiceCall("MatchesService", "getHead2Head", "1", "limit:10;", u) : u \in UnfoldOptions}
    \cup {ServiceCall("MatchesService", "getScheduledMatches", "", c, NoUnfold) :
            c \in {"", "competitions:PL;"}}
    \cup {ServiceCall("TeamsService", "getTeamById", id, "", NoUnfold) : id \in {"1", "99999"}}
    \cup {ServiceCall("TeamsService", "getTeamMatches", "1", o, NoUnfold) :
            o \in {"", "status:FINISHED;"}}
    \cup {ServiceCall("CompetitionsService", "getCompetitions", "", o, NoUnfold) :
            o \in {"", "areas=2077%2C2088"}}
    \cup {ServiceCall("CompetitionsService", m, "PL", "", NoUnfold) :
            m \in {"getCompetitionByCode", "getFullCompetition"}}
    \cup {ServiceCall("CompetitionsService", "getCompetitionById", "2021", "", NoUnfold)}
    \cup {ServiceCall("CompetitionsService", m, "PL", o, NoUnfold) :
            m \in {"getStandings", "getMatches", "getScorers", "getTeams"},
            o \in {"", "season=2023"}}

\* queryString ? `${path}?${queryString}` : path
WithQuery(path, queryString) == IF queryString = "" THEN path ELSE path \o "?" \o queryString

\* the getMatches call a method of MatchesService hands its work to
Delegate(c) ==
    CASE c.method = "getTodayMatches" ->
            ServiceCall(c.service, "getMatches", "", "", c.unfold)
      [] c.method = "getLiveMatches" ->
            ServiceCall(c.service, "getMatches", "", "status:IN_PLAY;", c.unfold)
      [] c.method = "getScheduledMatches" ->
            ServiceCall(c.service, "getMatches", "",
                        "dateFrom:2024-03-01;dateTo:2024-03-07;status:SCHEDULED;" \o c.options,
                        NoUnfold)
      [] OTHER -> c

\* the arguments of the axiosInstance.get of a method that calls it itself
GetOf(c) ==
    IF c.service = "MatchesService"
    THEN CASE c.method = "getMatches" ->
                 [url |-> "/matches", params |-> c.options, headers |-> UnfoldHeaders(c.unfold)]
           [] c.method = "getMatchById" ->
                 [url |-> "/matches/" \o c.id, params |-> "", headers |-> UnfoldHeaders(c.unfold)]
           [] c.method = "getHead2Head" ->
                 [url |-> "/matches/" \o c.id \o "/head2head", params |-> c.options,
                  headers |-> UnfoldHeaders(c.unfold)]
    ELSE IF c.service = "TeamsService"
    THEN CASE c.method = "getTeamById" ->
                 [url |-> "/teams/" \o c.id, params |-> "", headers |-> {}]
           [] c.method = "getTeamMatches" ->
                 [url |-> "/teams/" \o c.id \o "/matches", params |-> c.options, headers |-> {}]
    ELSE CASE c.method = "getCompetitions" ->
                 [url |-> WithQuery("/competitions", c.options), params |-> "", headers |-> {}]
           [] c.method \in {"getCompetitionByCode", "getCompetitionById", "getFullCompetition"} ->
                 [url |-> "/competitions/" \o c.id, params |-> "", headers |-> {}]
           [] c.method = "getStandings" ->
                 [url |-> WithQuery("/competitions/" \o c.id \o "/standings", c.options),
                  params |-> "", headers |-> {}]
           [] c.method = "getMatches" ->
                 [url |-> WithQuery("/competitions/" \o c.id \o "/matches", c.options),
                  params |-> "", headers |-> {}]
           [] c.method = "getScorers" ->
                 [url |-> WithQuery("/competitions/" \o c.id \o "/scorers", c.options),
                  params |-> "", headers |-> {}]
           [] c.method = "getTeams" ->
                 [url |-> WithQuery("/competitions/" \o c.id \o "/teams", c.options),
                  params |-> "", headers |-> {}]

\* the GET requests a method issues before it awaits the response
Gets(c) == <<GetOf(Delegate(c))>>

\* what the axios instance settles a GET with: a response, or the reason its
\* response interceptor rejects with
HttpOutcomes ==
    {[promise |-> "fulfilled", response |-> <<[status |-> 200, data |-> "body"]>>, reason |-> <<>>]}
    \cup {[promise |-> "rejected", response |-> <<>>, reason |-> <<ErrorHandler(e).reason>>] :
            e \in {x \in AxiosErrors :
                      \/ x.response = <<>>
                      \/ (x.response[1].status \in {404, 429, 500}
                            /\ x.response[1].data = "nobody")}}

\* variant: a failure is wrapped into a new error that keeps the message
SettledWrapped(http) ==
    IF http.promise = "fulfilled"
    THEN [promise |-> "fulfilled", data |-> <<http.response[1].data>>, reason |-> <<>>]
    ELSE [promise |-> "rejected", data |-> <<>>,
          reason |-> <<[message |-> http.reason[1].message]>>]

\* const response = await axiosInstance.get(...); return response.data;
\* a rejection of the awaited promise leaves the method as it is
Settled(http) ==
    IF http.promise = "fulfilled"
    THEN [promise |-> "fulfilled", data |-> <<http.response[1].data>>, reason |-> <<>>]
    ELSE [promise |-> "rejected", data |-> <<>>, reason |-> http.reason]

\* A service method runs up to its await: the GET is issued.
Get ==
    /\ call.fn = "service"
    /\ ~call.done
    /\ call' = Pending("axiosInstance.get", [caller |-> call.arg, requests |-> Gets(call.arg)])
    /\ UNCHANGED appVars

\* The axios instance settles the GET and the method settles with it.
Settle ==
    /\ call.fn = "axiosInstance.get"
    /\ ~call.done
    /\ \E http \in HttpOutcomes :
          call' = Returned(call, [http |-> http, service |-> Settled(http)])
    /\ UNCHANGED appVars

NextServices == Get \/ Settle

SpecServices == InitCalls("service", ServiceCalls) /\ [][NextServices]_vars

\* C19: every method of the resource services issues exactly one GET per call,
\* also when the call fails, and a failure of the HTTP client leaves the method
\* as the very same error value; a failure is never turned into a success.
C19_OneGetAndSameError ==
    call.fn = "axiosInstance.get" =>
        /\ Len(call.arg.requests) = 1
        /\ call.done =>
              /\ call.result.service.promise = call.result.http.promise
              /\ call.result.http.promise = "rejected" =>
                    call.result.service.reason = call.result.http.reason

\* C19 case: getTeamById(99999) is answered 404 and rejects with the client's error
C19_TeamNotFound ==
    /\ call.fn = "axiosInstance.get"
    /\ call.done
    /\ call.arg.caller.method = "getTeamById"
    /\ call.arg.caller.id = "99999"
    /\ Len(call.arg.requests) = 1
    /\ call.result.service.promise = "rejected"
    /\ call.result.service.reason[1].type = "CLIENT_ERROR"
    /\ call.result.service.reason[1].status = 404

\* C20: getMatches, getMatchById and getHead2Head send X-Unfold-Lineups,
\* X-Unfold-Bookings, X-Unfold-Subs and X-Unfold-Goals exactly for the flags
\* that are defined, with the value 'true' or 'false', and no such header for a
\* flag that is undefined.
C20_HeaderPerDefinedFlag ==
    (call.fn = "axiosInstance.get"
        /\ call.arg.caller.method \in {"getMatches", "getMatchById", "getHead2Head"}
        /\ call.arg.caller.service = "MatchesService") =>
        LET u == call.arg.caller.unfold
            headers == call.arg.requests[1].headers
            Sent(name, flag) ==
                /\ flag \in u.on <=> <<name, "true">> \in headers
                /\ flag \in u.off <=> <<name, "false">> \in headers
        IN /\ Sent("X-Unfold-Lineups", "lineups")
           /\ Sent("X-Unfold-Bookings", "bookings")
           /\ Sent("X-Unfold-Subs", "substitutions")
           /\ Sent("X-Unfold-Goals", "goals")
           /\ Cardinality(headers) = Cardinality(u.on \cup u.off)

\* C20 case: lineups and goals true, bookings false, substitutions undefined
C20_TrueFalseAndUndefined ==
    /\ call.fn = "axiosInstance.get"
    /\ call.arg.caller.method = "getHead2Head"
    /\ call.arg.caller.unfold = [on |-> {"lineups", "goals"}, off |-> {"bookings"},
                                 undef |-> {"substitutions"}]
    /\ call.arg.requests[1].headers
          = {<<"X-Unfold-Lineups", "true">>, <<"X-Unfold-Goals", "true">>,
             <<"X-Unfold-Bookings", "false">>}

\* ------------------------------------------------------------ retry delay
\* the largest attempt index the delay is computed for
MaxAttemptIndex == 20

\* the useQuery calls that pass a retryDelay; "default" stands for the calls
\* that pass none and get the library's, which is the same expression
RetryDelayHooks ==
    {"useMatches", "useTodayMatches", "useMatchById", "useLiveMatches", "useScheduledMatches",
     "default"}

Min(a, b) == IF a <= b THEN a ELSE b

\* variant: the delay doubles without a cap
retryDelayUncapped(attemptIndex) == 1000 * 2 ^ attemptIndex

\* (attemptIndex) => Math.min(1000 * 2 ** attemptIndex, 30000)
retryDelay(attemptIndex) == Min(1000 * 2 ^ attemptIndex, 30000)

\* The retryer asks for the delay before a retry; attemptIndex is the number of
\* failures before this one, so the first retry is asked with 0.
AskRetryDelay ==
    /\ call.fn = "retryDelay"
    /\ ~call.done
    /\ call' = Returned(call, retryDelay(call.arg.attemptIndex))
    /\ UNCHANGED appVars

NextRetryDelay == AskRetryDelay

SpecRetryDelay ==
    /\ InitCalls("retryDelay", [hook : RetryDelayHooks, attemptIndex : 0 .. MaxAttemptIndex])
    /\ [][NextRetryDelay]_vars

\* C21: the delay before retry n is 1000, 2000, 4000, 8000, 16000 ms for
\* n = 0..4 and 30000 ms for every n >= 5: it never exceeds 30 seconds and is
\* strictly increasing while below the cap.
C21_BackoffDoublesUpToCap ==
    (call.fn = "retryDelay" /\ call.done) =>
        LET n == call.arg.attemptIndex
        IN /\ call.result <= 30000
           /\ n >= 5 => call.result = 30000
           /\ n < 5 => call.result = <<1000, 2000, 4000, 8000, 16000>>[n + 1]
           /\ call.result < 30000 => call.result < retryDelay(n + 1)

\* C21 case: the second of the two retries of useTodayMatches waits 2000 ms
C21_SecondRetryWaitsTwoSeconds ==
    /\ call.fn = "retryDelay"
    /\ call.done
    /\ call.arg.hook = "useTodayMatches"
    /\ call.arg.attemptIndex = Retry("useTodayMatches") - 1
    /\ call.result = 2000

\* ------------------------------------------------------------ staleness and polling
UseQueryDone == call.fn = "useQuery" /\ call.done

\* rarely changing data (competition list, head-to-head history): a staleness
\* window of 5 to 10 minutes and no polling
RarelyChangingIsLongLived ==
    call.arg.hook \in {"useCompetitions", "useHead2Head"} =>
        /\ call.result.staleTime >= 5 * 60 * 1000
        /\ call.result.staleTime <= 10 * 60 * 1000
        /\ call.result.refetchInterval = 0

\* C22 (as stated): today's matches and live matches have a staleness window
\* of 2 minutes and are polled every 30 to 60 seconds; the competition list and
\* the head-to-head history have a window of 5 to 10 minutes and no polling.
C22_VolatileTwoMinutesRareLong ==
    UseQueryDone =>
        /\ call.arg.hook \in {"useTodayMatches", "useLiveMatches"} =>
              /\ call.result.staleTime = 2 * 60 * 1000
              /\ call.result.refetchInterval >= 30000
              /\ call.result.refetchInterval <= 60000
        /\ RarelyChangingIsLongLived

\* C22 (amended): today's matches have a staleness window of 2 minutes and are
\* polled every 60 seconds, live matches have a window of 30 seconds and are
\* polled every 30 seconds; the competition list and the head-to-head history
\* have a window of 5 to 10 minutes and no polling.
C22_LiveThirtySecondsRareLong ==
    UseQueryDone =>
        /\ call.arg.hook = "useTodayMatches" =>
              (call.result.staleTime = 2 * 60 * 1000 /\ call.result.refetchInterval = 60000)
        /\ call.arg.hook = "useLiveMatches" =>
              (call.result.staleTime = 30000 /\ call.result.refetchInterval = 30000)
        /\ RarelyChangingIsLongLived

\* C22 case: useLiveMatches is called and gets its 30-second window
C22_LiveMatchesCalled ==
    /\ UseQueryDone
    /\ call.arg.hook = "useLiveMatches"
    /\ call.result.staleTime = 30000

\* ------------------------------------------------------------ live matches
\* the match statuses of the API
MatchStatuses ==
    {"SCHEDULED", "TIMED", "IN_PLAY", "PAUSED", "FINISHED", "SUSPENDED", "POSTPONED", "CANCELLED"}

\* const isLive = match.status === 'IN_PLAY' || match.status === 'PAUSED'
isLive(status) == status = "IN_PLAY" \/ status = "PAUSED"

\* the statuses the status parameter of a /matches request selects: the one it
\* names, or all of them when it is not set
Selects(params) ==
    {st \in MatchStatuses :
        \/ params = ""
        \/ params = "status:" \o st \o ";"}

\* C23: the request getLiveMatches issues selects the matches that are live:
\* those whose status is IN_PLAY or PAUSED.
C23_LiveSelectsInPlayAndPaused ==
    (call.fn = "axiosInstance.get" /\ call.arg.caller.method = "getLiveMatches") =>
        Selects(call.arg.requests[1].params) = {st \in MatchStatuses : isLive(st)}

\* ------------------------------------------------------------ pages/MatchDetail
\* the route id of the mounted match page converts to a non-zero number
MatchMounted == page = "match" /\ route # Away

ValidMatchId(r) == Truthy(Number(r))

MatchKey(r) == ParentKey("match", r)

Head2HeadKey(r) == <<"useHead2Head", Number(r), "">>

\* the mount of the match page on a valid id issues the request of each of its
\* two queries that is stale and not being fetched, whatever the other's state
BothIssuedAtMount ==
    [][(last' = "Navigate" /\ page = "match" /\ route' # Away /\ ValidMatchId(route'))
          => \A k \in {MatchKey(route'), Head2HeadKey(route')} :
                (cache[k].data = None /\ cache[k].fetchStatus = "idle") => Issued(k)]_vars

\* the head-to-head panel shows a result only behind a successful match query
Head2HeadBehindMatch ==
    MatchMounted =>
        LET shown == SectionView(Head2HeadKey(route))
            match == cache[MatchKey(route)]
        IN /\ (shown.data \/ shown.error) => (match.data # None /\ match.error = None)
           /\ match.error # None => ~(shown.data \/ shown.error \/ shown.loading)

\* C24: on the match detail page the head-to-head query is not gated on the
\* match query: both requests are issued at mount whenever the route id is a
\* non-zero number; the head-to-head result (data or error) is displayed only
\* once the match query has succeeded, and a match-query error hides it.
C24_Head2HeadUngatedButHidden ==
    BothIssuedAtMount /\ []Head2HeadBehindMatch

\* C24 case: the head-to-head query has succeeded, the match query is in error
\* and the page shows the error panel only
C24_MatchErrorHidesHead2Head ==
    /\ MatchMounted
    /\ ValidMatchId(route)
    /\ cache[Head2HeadKey(route)].status = "success"
    /\ cache[MatchKey(route)].status = "error"
    /\ PageView = "error"
    /\ ~SectionView(Head2HeadKey(route)).data

\* C25: while the match detail page is mounted on a route id that does not
\* convert to a non-zero number (NaN or 0), no request of the match or of the
\* head-to-head query is issued, and the page shows the loading indicator:
\* never the error panel, never the content, and no retry.
C25_InvalidIdLoadsForever ==
    (MatchMounted /\ ~ValidMatchId(route)) =>
        /\ PageView = "loading"
        /\ \A k \in Observed :
              /\ ~EverFetched(cache[k])
              /\ cache[k].net = "none"
              /\ cache[k].attempts = 0
              /\ ~CanRefetch(k)

\* C25 case: the page is mounted on /matches/0 after another match was loaded,
\* and time has passed since
C25_StillLoadingAsTimePasses ==
    /\ MatchMounted
    /\ route = "0"
    /\ last = "Elapse"
    /\ \E k \in Keys : cache[k].status = "success"
    /\ PageView = "loading"

\* ------------------------------------------------------------ CompetitionDetail
CompetitionMounted == page = "competition" /\ route # Away

\* the parent query of the competition page failed a refetch: it is in error
\* and still holds the data of its last success
ParentRefetchFailed ==
    /\ CompetitionMounted
    /\ cache[ParentKey(page, route)].status = "error"
    /\ cache[ParentKey(page, route)].data # None

\* a failed fetch leaves the data of the parent query in the cache
ParentDataKept ==
    [][\A r \in Routes("competition") :
          (last' = "Fail" /\ cache[ParentKey("competition", r)].data # None)
              => cache'[ParentKey("competition", r)].data = cache[ParentKey("competition", r)].data]_vars

\* C26: on the competition detail page, once the parent query has data, a
\* failed refetch of the parent replaces the whole page by the parent's error
\* panel with its retry, child sections that had rendered included, while the
\* parent's data stay cached and the child queries stay enabled.
C26_ParentRefetchErrorReplacesPage ==
    /\ ParentDataKept
    /\ [](ParentRefetchFailed =>
            /\ PageView = "error"
            /\ CanRefetch(ParentKey(page, route))
            /\ \A k \in ChildKeys(page, route) :
                  /\ SectionView(k) = [loading |-> FALSE, error |-> FALSE, data |-> FALSE]
                  /\ Enabled(page, route, k, cache))

\* C26 case: a child section had loaded when the refetch of the parent failed
C26_LoadedChildBehindErrorPanel ==
    /\ ParentRefetchFailed
    /\ \E k \in ChildKeys(page, route) : cache[k].status = "success"
    /\ PageView = "error"

\* ------------------------------------------------------------ one request, two keys
\* the hook call that asks for the same resource through the other hook
Twin(i) ==
    CASE i.hook = "useTodayMatches" -> [i EXCEPT !.hook = "useMatches"]
      [] i.hook = "useMatches" -> [i EXCEPT !.hook = "useTodayMatches"]
      [] i.hook = "useCompetitionByCode" -> [i EXCEPT !.hook = "useFullCompetition"]
      [] i.hook = "useFullCompetition" -> [i EXCEPT !.hook = "useCompetitionByCode"]

\* the calls of the two pairs: useMatches with empty options, the others as they are
Twinned ==
    {i \in Invocations :
        \/ i.hook \in {"useTodayMatches", "useCompetitionByCode", "useFullCompetition"}
        \/ (i.hook = "useMatches" /\ i.options = "")}

\* variant: the cache holds one entry per HTTP request
NetworkCallsPerRequest(mounted) == Cardinality({Request(i) : i \in mounted})

\* the network calls made when the hook calls are mounted on an empty cache:
\* one per cache entry, an entry per query hash
NetworkCalls(mounted) == Cardinality({QueryKeyHash(i) : i \in mounted})

\* C27: useTodayMatches(u) and useMatches({}, u) issue the same request, and so
\* do useCompetitionByCode(c) and useFullCompetition(c), but the two hooks of a
\* pair have different cache keys: mounting both makes two network calls.
C27_SameRequestTwoEntries ==
    (UseQueryDone /\ call.arg \in Twinned) =>
        /\ Twin(call.arg) \in Twinned
        /\ Request(Twin(call.arg)) = call.result.request
        /\ QueryKeyHash(Twin(call.arg)) # call.result.queryHash
        /\ NetworkCalls({call.arg, Twin(call.arg)}) = 2

\* C27 case: useTodayMatches({ goals: true }) next to useMatches({}, { goals: true })
C27_TodayNextToMatches ==
    /\ UseQueryDone
    /\ call.arg.hook = "useTodayMatches"
    /\ call.arg.unfold = [on |-> {"goals"}, off |-> {}, undef |-> {}]
    /\ call.result.request = [url |-> "/matches", params |-> "",
                              headers |-> {<<"X-Unfold-Goals", "true">>}]
    /\ call.result.request = Request(Twin(call.arg))

\* ------------------------------------------------------------ polling and freshness
\* the step is the firing of the interval timer of the key, with no fetch of
\* the key under way
PollFires(k) ==
    /\ last' = "Poll"
    /\ PollDue(k)
    /\ observer'[k].timer = 0
    /\ cache[k].fetchStatus = "idle"

\* C28 (as stated): while the Home page is mounted, every interval of 60 s that
\* elapses issues a request of today's matches, whether or not the cached data
\* are still within their staleness window of 2 minutes.
C28_PollIgnoresFreshness ==
    [][\A k \in Polled : PollFires(k) => Issued(k)]_vars

\* C28 (amended): while the Home page is mounted and the window is visible,
\* every interval of 60 s that elapses issues a request of today's matches,
\* whether or not the cached data are still within their staleness window of
\* 2 minutes; while the window is hidden the interval issues none.
C28_VisiblePollIgnoresFreshness ==
    [][\A k \in Polled : PollFires(k) => (Issued(k) <=> focused)]_vars

\* C28 case: the interval fired on data that were one minute old, and the
\* request is on the network
C28_PolledWhileFresh ==
    /\ page = "home"
    /\ last = "Poll"
    /\ \E k \in Polled \cap Observed :
          /\ cache[k].status = "success"
          /\ ~IsStale(cache[k], k)
          /\ cache[k].fetchStatus = "fetching"
          /\ cache[k].net = "sent"

\* ------------------------------------------------ components/matches/MatchH2H
\* the largest number of listed head-to-head matches
MaxH2H == 2

TeamIds == {81, 86, 90}

Winners == {"HOME_TEAM", "AWAY_TEAM", "DRAW", "null"}

\* a listed match: two different teams and the winner of its score
H2HMatches ==
    {m \in [homeTeam : TeamIds, awayTeam : TeamIds, winner : Winners] : m.homeTeam # m.awayTeam}

\* the props of MatchH2H: the list and the ids of the two teams of the page's match
H2HProps ==
    {p \in [matches : SeqsUpTo(H2HMatches, MaxH2H), homeTeamId : {81, 86}, awayTeamId : {81, 86}] :
        p.homeTeamId # p.awayTeamId}

\* variant: a match won by the away team is a defeat for whoever is asked
getResultTextAwayLost(match, teamId) ==
    IF match.winner = "null" THEN "E"
    ELSE IF match.winner = "HOME_TEAM" THEN (IF match.homeTeam = teamId THEN "V" ELSE "D")
    ELSE IF match.winner = "AWAY_TEAM" THEN "D"
    ELSE "E"

getResultText(match, teamId) ==
    IF match.winner = "null" THEN "E"
    ELSE IF match.winner = "HOME_TEAM" THEN (IF match.homeTeam = teamId THEN "V" ELSE "D")
    ELSE IF match.winner = "AWAY_TEAM" THEN (IF match.awayTeam = teamId THEN "V" ELSE "D")
    ELSE "E"

\* the counters after the forEach over the list: one increment per match
TeamStats(matches, teamId) ==
    LET Count(text) ==
            Cardinality({i \in 1 .. Len(matches) : getResultText(matches[i], teamId) = text})
    IN [wins |-> Count("V"), draws |-> Count("E"), losses |-> Count("D")]

getHomeTeamStats(props) == TeamStats(props.matches, props.homeTeamId)

getAwayTeamStats(props) == TeamStats(props.matches, props.awayTeamId)

\* MatchH2H is rendered with the props.
RenderH2H ==
    /\ call.fn = "MatchH2H"
    /\ ~call.done
    /\ call' = Returned(call, [homeStats |-> getHomeTeamStats(call.arg),
                               awayStats |-> getAwayTeamStats(call.arg)])
    /\ UNCHANGED appVars

NextH2H == RenderH2H

SpecH2H == InitCalls("MatchH2H", H2HProps) /\ [][NextH2H]_vars

\* every listed match is played between the two teams of the props
BetweenTheTwo(props) ==
    \A i \in 1 .. Len(props.matches) :
        {props.matches[i].homeTeam, props.matches[i].awayTeam}
            = {props.homeTeamId, props.awayTeamId}

\* C29: for each of the two teams wins + draws + losses is the number of listed
\* matches; a match whose winner is null is a draw for both; when every listed
\* match is between exactly the two teams, the wins of one are the losses of
\* the other and the draw counts are equal.
C29_StatsAddUpAndMirror ==
    (call.fn = "MatchH2H" /\ call.done) =>
        LET home == call.result.homeStats
            away == call.result.awayStats
            listed == call.arg.matches
            nulls == Cardinality({i \in 1 .. Len(listed) : listed[i].winner = "null"})
        IN /\ home.wins + home.draws + home.losses = Len(listed)
           /\ away.wins + away.draws + away.losses = Len(listed)
           /\ home.draws >= nulls
           /\ away.draws >= nulls
           /\ nulls = Len(listed) => (home.draws = Len(listed) /\ away.draws = Len(listed))
           /\ BetweenTheTwo(call.arg) =>
                 /\ home.wins = away.losses
                 /\ home.losses = away.wins
                 /\ home.draws = away.draws

\* C29 case: two matches between the two teams, one won by the away side of
\* that match and one without winner
C29_AwayWinAndNullWinner ==
    /\ call.fn = "MatchH2H"
    /\ call.done
    /\ BetweenTheTwo(call.arg)
    /\ Len(call.arg.matches) = 2
    /\ call.arg.matches[1].winner = "AWAY_TEAM"
    /\ call.arg.matches[1].awayTeam = call.arg.homeTeamId
    /\ call.arg.matches[2].winner = "null"
    /\ call.result.homeStats = [wins |-> 1, draws |-> 1, losses |-> 0]
    /\ call.result.awayStats = [wins |-> 0, draws |-> 1, losses |-> 1]

\* ------------------------------------------------------------ timeline badges
\* C30: the badge of a goal that has additional time shows the effective minute
\* (nominal minute + additional time) followed by '+additional time', so the
\* additional time is in the label twice; every other badge shows the minute.
C30_BadgeShowsEffectiveMinutePlusExtra ==
    TimelineDone =>
        \A i \in 1 .. Len(call.result.events) :
            LET e == call.result.events[i]
                source == SourceOf(call.arg, e)
            IN IF e.type = "goal" /\ source.injuryTime # <<>>
               THEN call.result.badges[i]
                        = ToString(source.minute + source.injuryTime[1]) \o "' +"
                            \o ToString(source.injuryTime[1])
               ELSE call.result.badges[i] = ToString(source.minute) \o "'"

\* C30 case: a goal at 45 with additional time 2 is labelled 47' +2
C30_FortySevenPlusTwo ==
    /\ TimelineDone
    /\ call.arg.goals = << <<[minute |-> 45, injuryTime |-> <<2>>]>> >>
    /\ call.result.badges[1] = "47' +2"

====
